---- MODULE Spec2Model ----
(***************************************************************************)
(* QMediathekView: the update orchestration of Application (mirror list    *)
(* and catalog refresh, with the streaming Decompressor) and the lazily    *)
(* paginated result Model.                                                  *)
(***************************************************************************)
EXTENDS Integers, Sequences, FiniteSets, TLC

(***************************************************************************)
(* Bounds of the model.                                                     *)
(***************************************************************************)
\* manual update requests (MainWindow::databaseUpdateRequested) considered per run
MaxManual == 1
\* size of Decompressor::m_buffer, scaled down from 64 * 1024
BufferSize == 2
\* largest run length a block of the modelled compressed stream may carry
MaxRun == 2

VARIABLES
    \* ---- Application (src/unnamed/part_001) ----
    started,        \* Application::exec has been entered
    settings,       \* m_settings: mirror list, timestamps, thresholds
    now,            \* QDateTime::currentDateTime(), in seconds
    timers,         \* slots queued by QTimer::singleShot(0, ...)
    mirrorReply,    \* the reply of updateMirrorList and its progress
    replies,        \* the replies of updateDatabase, each with its decompressor
    trace,          \* signals emitted and slots entered, in order
    dbUpdates,      \* the calls of Database::update, in order
    crashed,        \* the process has ended in randomItem on an empty list
    \* ---- Model (src/model.cpp) with its Database ----
    database,       \* the catalog m_database holds: its number of shows
    model,          \* the fields of Model: m_channel ... m_id, m_fetched
    emitted,        \* the signals the last call of Model emitted
    dbCalls,        \* the calls of Database the last call of Model made
    lastCall,       \* the last call of Model: whether its arguments differed from
                    \* the query, were valid, and whether it rewound the cursor
                    \* over an unchanged m_id
    fetchCalls,     \* calls of fetchMore with canFetchMore, since m_id was set
    aborted,        \* an assertion of QAbstractItemModel has ended the process
    cache,          \* m_cache: the cached shows, most recently used first
    lastRead,       \* the last read of a field: row, index, hit or miss, value
    painting,       \* the rows the view is reading in one go: next and last
    \* ---- a Decompressor fed chunk by chunk ----
    sent,           \* the compressed bytes, all of them
    unfed,          \* the bytes not yet passed to appendData
    fed,            \* the Decompressor
    feeding,        \* the chunks fed so far, the empty ones among them, and
                    \* the calls of lzma_code the last appendData made
    \* ---- DownloadDialog (src/unnamed/part_000) ----
    download        \* the dialog, its reply, its QFile and the file on disk

appVars == <<started, settings, now, timers, mirrorReply, replies, trace, dbUpdates, crashed>>

modelVars == <<database, model, emitted, dbCalls, lastCall, fetchCalls, aborted,
              cache, lastRead, painting>>

chunkVars == <<sent, unfed, fed, feeding>>

vars == <<appVars, modelVars, chunkVars, download>>

(***************************************************************************)
(* Sequence helpers.                                                        *)
(***************************************************************************)
Take(s, k) == SubSeq(s, 1, k)

Drop(s, k) == SubSeq(s, k + 1, Len(s))

Min(a, b) == IF a < b THEN a ELSE b

(***************************************************************************)
(* liblzma, as far as Decompressor relies on it.  The compressed stream is  *)
(* a sequence of blocks <<n, v>> (n copies of the byte v, 1 <= n <= MaxRun) *)
(* closed by the byte 0; a count above MaxRun is a corrupt stream.  The     *)
(* decoder keeps its position inside a block across calls.                  *)
(***************************************************************************)
LZMA_STREAM_INIT ==
    [seq |-> "count", run |-> 0, val |-> 0, allow_buf_error |-> FALSE]

\* the coder proper: consumes input and fills the output until the input is
\* used up, the output is full, the stream ends or the stream is corrupt
RECURSIVE Decode(_, _, _, _)
Decode(strm, in, out, room) ==
    IF strm.seq = "end"
    THEN [strm |-> strm, in |-> in, out |-> out, ret |-> "LZMA_STREAM_END"]
    ELSE IF strm.seq = "emit"
    THEN IF room = 0
         THEN [strm |-> strm, in |-> in, out |-> out, ret |-> "LZMA_OK"]
         ELSE Decode([strm EXCEPT !.run = @ - 1,
                                  !.seq = IF strm.run = 1 THEN "count" ELSE "emit"],
                     in, Append(out, strm.val), room - 1)
    ELSE IF in = <<>>
    THEN [strm |-> strm, in |-> in, out |-> out, ret |-> "LZMA_OK"]
    ELSE IF strm.seq = "count"
    THEN IF Head(in) = 0
         THEN Decode([strm EXCEPT !.seq = "end"], Tail(in), out, room)
         ELSE IF Head(in) > MaxRun
         THEN [strm |-> [strm EXCEPT !.seq = "error"], in |-> Tail(in), out |-> out,
               ret |-> "LZMA_DATA_ERROR"]
         ELSE Decode([strm EXCEPT !.seq = "value", !.run = Head(in)], Tail(in), out, room)
    ELSE \* strm.seq = "value"
         Decode([strm EXCEPT !.seq = "emit", !.val = Head(in)], Tail(in), out, room)

\* lzma_code(&m_stream, LZMA_RUN): a corrupt stream stays an error; a call that
\* makes no progress answers LZMA_OK once and LZMA_BUF_ERROR from then on
lzma_code(strm, in, avail_out) ==
    IF strm.seq = "error"
    THEN [strm |-> strm, in |-> in, out |-> <<>>, ret |-> "LZMA_PROG_ERROR"]
    ELSE LET r == Decode(strm, in, <<>>, avail_out)
             idle == r.in = in /\ r.out = <<>>
         IN  IF r.ret # "LZMA_OK"
             THEN r
             ELSE IF idle /\ strm.allow_buf_error
             THEN [r EXCEPT !.ret = "LZMA_BUF_ERROR"]
             ELSE [r EXCEPT !.strm.allow_buf_error = idle]

(***************************************************************************)
(* Decompressor                                                             *)
(***************************************************************************)
\* Decompressor::Decompressor
NewDecompressor == [m_stream |-> LZMA_STREAM_INIT, m_data |-> <<>>]

\* the loop of Decompressor::appendData: it runs while lzma_code answers
\* LZMA_OK and appends what each call produced; any other answer ends it
RECURSIVE AppendLoop(_, _)
AppendLoop(d, in) ==
    LET r == lzma_code(d.m_stream, in, BufferSize)
        next == [m_stream |-> r.strm, m_data |-> d.m_data \o r.out]
    IN  IF r.ret = "LZMA_OK" THEN AppendLoop(next, r.in) ELSE next

\* an appendData that calls lzma_code once
appendDataOnce(d, data) ==
    LET r == lzma_code(d.m_stream, data, BufferSize)
    IN  [m_stream |-> r.strm, m_data |-> d.m_data \o r.out]

\* Decompressor::appendData
appendData(d, data) == AppendLoop(d, data)

\* the calls of lzma_code one appendData makes: the passes of its loop
RECURSIVE LoopCalls(_, _)
LoopCalls(d, in) ==
    LET r == lzma_code(d.m_stream, in, BufferSize)
        next == [m_stream |-> r.strm, m_data |-> d.m_data \o r.out]
    IN  IF r.ret = "LZMA_OK" THEN 1 + LoopCalls(next, r.in) ELSE 1

\* no Decompressor is being fed
NoFeed ==
    /\ sent = <<>>
    /\ unfed = <<>>
    /\ fed = NewDecompressor
    /\ feeding = [chunks |-> 0, empty |-> 0, calls |-> 0]

\* the longest compressed stream fed, and the empty chunks fed at most
MaxStream == 5

MaxEmpty == 1

\* RECURSIVE helper: all byte sequences of length n over the bytes 0..MaxRun + 1
RECURSIVE BytesOfLength(_)
BytesOfLength(n) ==
    IF n = 0 THEN {<<>>}
    ELSE {Append(s, b) : s \in BytesOfLength(n - 1), b \in 0..(MaxRun + 1)}

\* the compressed streams fed: well-formed, truncated, corrupt, with bytes
\* after the end
ChunkStreams == UNION {BytesOfLength(n) : n \in 0..MaxStream}

\* the caller passes the next k bytes to appendData
Feed(k) ==
    /\ k \in 0..Len(unfed)
    /\ k = 0 => feeding.empty < MaxEmpty
    /\ fed' = appendData(fed, Take(unfed, k))
    /\ unfed' = Drop(unfed, k)
    /\ feeding' = [chunks |-> feeding.chunks + 1,
                   empty |-> feeding.empty + (IF k = 0 THEN 1 ELSE 0),
                   calls |-> LoopCalls(fed, Take(unfed, k))]
    /\ UNCHANGED sent
    /\ UNCHANGED <<appVars, modelVars>>
    /\ UNCHANGED download

(***************************************************************************)
(* Dates (QDateTime), in seconds.                                           *)
(***************************************************************************)
InvalidDate == [valid |-> FALSE, secs |-> 0]

DateAt(s) == [valid |-> TRUE, secs |-> s]

SecsPerDay == 24 * 60 * 60

\* integer division of C++, which truncates toward zero
CDiv(a, b) == IF a >= 0 THEN a \div b ELSE -((-a) \div b)

\* QDateTime::daysTo: the number of day changes from a to b, 0 if either is invalid
daysTo(a, b) ==
    IF ~a.valid \/ ~b.valid THEN 0 ELSE (b.secs \div SecsPerDay) - (a.secs \div SecsPerDay)

\* QDateTime::secsTo: 0 if either is invalid
secsTo(a, b) == IF ~a.valid \/ ~b.valid THEN 0 ELSE b.secs - a.secs

(***************************************************************************)
(* What the network can answer.                                             *)
(***************************************************************************)
\* compressed catalogs a mirror may serve: a sound one and a corrupt one
GoodStream == <<2, 5, 0>>

CorruptStream == <<1, 5, MaxRun + 1>>

Streams == {GoodStream, CorruptStream}

\* no document: the reply of a broken transfer, or one not yet received
NoDocument == [root |-> "", children |-> <<>>]

Server(u) == [tag |-> "Server", url |-> u]

\* documents the mirror-list URL may serve; root "" is an unparsable document,
\* url "" a Server element without URL text
Documents ==
    { [root |-> "Mediathek", children |-> <<Server("http://a"), Server("http://b")>>],
      [root |-> "Mediathek", children |-> <<[tag |-> "Other", url |-> "http://x"], Server(""), Server("http://a")>>],
      [root |-> "Mediathek", children |-> <<>>],
      [root |-> "Mediathek", children |-> <<Server("")>>],
      [root |-> "Foo", children |-> <<Server("http://a")>>],
      NoDocument }

\* the ways a mirror-list transfer can end
MirrorOutcomes ==
    {[error |-> TRUE, document |-> NoDocument]}
    \cup {[error |-> FALSE, document |-> d] : d \in Documents}

\* the value a reference into an empty list may denote
GarbageUrl == "garbage"

(***************************************************************************)
(* Trace of signals and slots, each with the settings it could observe.     *)
(***************************************************************************)
Entry(what, fetch, s) ==
    [what |-> what, fetch |-> fetch,
     mirrorList |-> s.mirrorList, mirrorListUpdatedOn |-> s.mirrorListUpdatedOn,
     databaseUpdatedOn |-> s.databaseUpdatedOn]

Count(tr, what, fetch) ==
    Cardinality({i \in DOMAIN tr : tr[i].what = what /\ tr[i].fetch = fetch})

Manual == {i \in DOMAIN replies : replies[i].origin = "manual"}

InFlight == {i \in DOMAIN replies : replies[i].phase = "running"}

(***************************************************************************)
(* Application                                                              *)
(***************************************************************************)
Destroyed ==
    [m_stream |-> [seq |-> "freed", run |-> 0, val |-> 0, allow_buf_error |-> FALSE],
     m_data |-> <<>>]

\* the reply of a GET and what the lambdas of updateDatabase capture with it:
\* stream is what the mirror sends in all, body what has not arrived yet,
\* avail what has arrived and was not read
NewReply(origin, url, body) ==
    [origin |-> origin, url |-> url, stream |-> body, body |-> body, avail |-> <<>>,
     error |-> FALSE, phase |-> "running", decompressor |-> NewDecompressor]

\* randomItem: a uniform draw from the list; on an empty list the index range
\* is 0..-1 and the reference returned is whatever the build yields
randomItem(list) ==
    IF list = <<>> THEN {GarbageUrl} ELSE {list[i] : i \in DOMAIN list}

\* Application::updateDatabase, entered with the trace tr
UpdateDatabase(origin, tr) ==
    LET id == Len(replies) + 1
        tr2 == Append(tr, Entry("startedDatabaseUpdate", id, settings))
    IN  /\ trace' = tr2
        /\ \/ /\ settings.mirrorList = <<>>
              /\ crashed' = TRUE
              /\ replies' = replies
           \/ /\ crashed' = crashed
              /\ \E url \in randomItem(settings.mirrorList) :
                 \E body \in (IF url = GarbageUrl THEN {<<>>} ELSE Streams) :
                    replies' = Append(replies, NewReply(origin, url, body))

\* a catalog check that also fetches when the age equals the threshold
CheckUpdateDatabaseAtThreshold(tr) ==
    LET updateAfter == settings.databaseUpdateAfterHours
        updatedOn == settings.databaseUpdatedOn
        updatedBefore == CDiv(CDiv(secsTo(updatedOn, DateAt(now)), 60), 60)
        tr2 == Append(tr, Entry("checkUpdateDatabase", 0, settings))
    IN  IF ~updatedOn.valid \/ updateAfter <= updatedBefore
        THEN UpdateDatabase("auto", tr2)
        ELSE /\ trace' = tr2
             /\ UNCHANGED <<replies, crashed>>

\* Application::checkUpdateDatabase, entered with the trace tr
CheckUpdateDatabase(tr) ==
    LET updateAfter == settings.databaseUpdateAfterHours
        updatedOn == settings.databaseUpdatedOn
        updatedBefore == CDiv(CDiv(secsTo(updatedOn, DateAt(now)), 60), 60)
        tr2 == Append(tr, Entry("checkUpdateDatabase", 0, settings))
    IN  IF ~updatedOn.valid \/ updateAfter < updatedBefore
        THEN UpdateDatabase("auto", tr2)
        ELSE /\ trace' = tr2
             /\ UNCHANGED <<replies, crashed>>

\* Application::updateMirrorList, up to the return of get()
UpdateMirrorList(tr) ==
    /\ trace' = Append(tr, Entry("startedMirrorListUpdate", 0, settings))
    /\ mirrorReply' = [phase |-> "running", error |-> FALSE, document |-> NoDocument]
    /\ UNCHANGED <<replies, crashed>>

\* Application::exec: queues checkUpdateMirrorList and enters the event loop
Exec ==
    /\ ~started
    /\ started' = TRUE
    /\ timers' = timers \cup {"checkUpdateMirrorList"}
    /\ UNCHANGED <<settings, now, mirrorReply, replies, trace, dbUpdates, crashed>>
    /\ UNCHANGED modelVars
    /\ UNCHANGED chunkVars
    /\ UNCHANGED download

\* Application::checkUpdateMirrorList, run by its timer
CheckUpdateMirrorList ==
    /\ started /\ ~crashed
    /\ "checkUpdateMirrorList" \in timers
    /\ timers' = timers \ {"checkUpdateMirrorList"}
    /\ LET updateAfter == settings.mirrorListUpdateAfterDays
           updatedOn == settings.mirrorListUpdatedOn
           updatedBefore == daysTo(updatedOn, DateAt(now))
           tr == Append(trace, Entry("checkUpdateMirrorList", 0, settings))
       IN  IF ~updatedOn.valid \/ updateAfter < updatedBefore
           THEN UpdateMirrorList(tr)
           ELSE CheckUpdateDatabase(tr) /\ UNCHANGED mirrorReply
    /\ UNCHANGED <<started, settings, now, dbUpdates>>
    /\ UNCHANGED modelVars
    /\ UNCHANGED chunkVars
    /\ UNCHANGED download

\* Application::checkUpdateDatabase, run by the timer of the mirror-list handler
TimerCheckUpdateDatabase ==
    /\ started /\ ~crashed
    /\ "checkUpdateDatabase" \in timers
    /\ timers' = timers \ {"checkUpdateDatabase"}
    /\ CheckUpdateDatabase(trace)
    /\ UNCHANGED <<started, settings, now, mirrorReply, dbUpdates>>
    /\ UNCHANGED modelVars
    /\ UNCHANGED chunkVars
    /\ UNCHANGED download

\* MainWindow::databaseUpdateRequested, connected to Application::updateDatabase
ManualUpdate ==
    /\ started /\ ~crashed
    /\ Cardinality(Manual) < MaxManual
    /\ UpdateDatabase("manual", trace)
    /\ UNCHANGED <<started, settings, now, timers, mirrorReply, dbUpdates>>
    /\ UNCHANGED modelVars
    /\ UNCHANGED chunkVars
    /\ UNCHANGED download

\* the URLs of the Server children that have a non-empty URL text
RECURSIVE ParseMirrorList(_)
ParseMirrorList(children) ==
    IF children = <<>> THEN <<>>
    ELSE LET rest == ParseMirrorList(Tail(children))
             server == Head(children)
         IN  IF server.tag = "Server" /\ server.url # ""
             THEN <<server.url>> \o rest
             ELSE rest

\* a handler that stores the list it parsed before looking whether it is empty
MirrorListHandlerStoringFirst(s, tr, error, document, today) ==
    IF error \/ document.root # "Mediathek"
    THEN [settings |-> s, queued |-> FALSE,
          trace |-> Append(tr, Entry("failedToUpdateMirrorList", 0, s))]
    ELSE LET mirrorList == ParseMirrorList(document.children)
             s2 == [s EXCEPT !.mirrorList = mirrorList, !.mirrorListUpdatedOn = today]
         IN  IF mirrorList = <<>>
             THEN [settings |-> s2, queued |-> FALSE,
                   trace |-> Append(tr, Entry("failedToUpdateMirrorList", 0, s2))]
             ELSE [settings |-> s2, queued |-> TRUE,
                   trace |-> Append(tr, Entry("completedMirrorListUpdate", 0, s2))]

\* a handler that goes on to the catalog check after a failure too
MirrorListHandlerCheckingAnyway(s, tr, error, document, today) ==
    LET mirrorList == IF error \/ document.root # "Mediathek"
                      THEN <<>> ELSE ParseMirrorList(document.children)
    IN  IF mirrorList = <<>>
        THEN [settings |-> s, queued |-> TRUE,
              trace |-> Append(tr, Entry("failedToUpdateMirrorList", 0, s))]
        ELSE LET s2 == [s EXCEPT !.mirrorList = mirrorList, !.mirrorListUpdatedOn = today]
             IN  [settings |-> s2, queued |-> TRUE,
                  trace |-> Append(tr, Entry("completedMirrorListUpdate", 0, s2))]

\* a handler that emits completedMirrorListUpdate before it stores the list
MirrorListHandlerEmittingFirst(s, tr, error, document, today) ==
    LET mirrorList == IF error \/ document.root # "Mediathek"
                      THEN <<>> ELSE ParseMirrorList(document.children)
    IN  IF mirrorList = <<>>
        THEN [settings |-> s, queued |-> FALSE,
              trace |-> Append(tr, Entry("failedToUpdateMirrorList", 0, s))]
        ELSE [settings |-> [s EXCEPT !.mirrorList = mirrorList,
                                     !.mirrorListUpdatedOn = today],
              queued |-> TRUE,
              trace |-> Append(tr, Entry("completedMirrorListUpdate", 0, s))]

\* what the finished handler of updateMirrorList does with the reply:
\* the new settings, the trace and whether checkUpdateDatabase is queued
MirrorListHandler(s, tr, error, document, today) ==
    IF error
    THEN [settings |-> s, queued |-> FALSE,
          trace |-> Append(tr, Entry("failedToUpdateMirrorList", 0, s))]
    ELSE IF document.root # "Mediathek"
    THEN [settings |-> s, queued |-> FALSE,
          trace |-> Append(tr, Entry("failedToUpdateMirrorList", 0, s))]
    ELSE LET mirrorList == ParseMirrorList(document.children)
         IN  IF mirrorList = <<>>
             THEN [settings |-> s, queued |-> FALSE,
                   trace |-> Append(tr, Entry("failedToUpdateMirrorList", 0, s))]
             ELSE LET s2 == [s EXCEPT !.mirrorList = mirrorList,
                                      !.mirrorListUpdatedOn = today]
                  IN  [settings |-> s2, queued |-> TRUE,
                       trace |-> Append(tr, Entry("completedMirrorListUpdate", 0, s2))]

\* QNetworkReply::finished of the mirror-list reply
MirrorListFinished ==
    /\ started /\ ~crashed
    /\ mirrorReply.phase = "running"
    /\ \E o \in MirrorOutcomes :
          LET r == MirrorListHandler(settings, trace, o.error, o.document, DateAt(now))
          IN  /\ settings' = r.settings
              /\ trace' = r.trace
              /\ timers' = IF r.queued THEN timers \cup {"checkUpdateDatabase"} ELSE timers
              /\ mirrorReply' = [phase |-> "finished", error |-> o.error,
                                 document |-> o.document]
    /\ UNCHANGED <<started, now, replies, dbUpdates, crashed>>
    /\ UNCHANGED modelVars
    /\ UNCHANGED chunkVars
    /\ UNCHANGED download

(***************************************************************************)
(* Database, as far as Model reads it.  A catalog of n shows has the        *)
(* identifiers 1..n; what a show carries follows from its identifier.       *)
(***************************************************************************)
\* the shows of the largest catalog
MaxShows == 515

\* the number of rows Model::fetchMore adds at most
fetchSize == 256

\* the capacity of m_cache
cacheSize == 1024

\* the shows a catalog has beyond one fetch window, or beyond the cache
SpareShows == 2

channelOf(id) == IF id % 2 = 1 THEN "ARD" ELSE "ZDF"

topicOf(id) == IF id % 3 = 0 THEN "News" ELSE IF id % 2 = 0 THEN "Sport" ELSE "Kultur"

titleOf(id) == IF id % 5 = 0 THEN "Tatort" ELSE "Heute"

\* the rank of a show under a sort key; shows of equal rank keep identifier order
rankOf(id, sortBy) ==
    CASE sortBy = "SortByChannel" -> IF channelOf(id) = "ARD" THEN 0 ELSE 1
      [] sortBy = "SortByTopic" -> IF topicOf(id) = "News" THEN 0 ELSE 1
      [] sortBy = "SortByTitle" -> IF titleOf(id) = "Heute" THEN 0 ELSE 1
      [] sortBy = "SortByDate" -> 0
      [] sortBy = "SortByTime" -> IF id % 4 < 2 THEN 0 ELSE 1
      [] sortBy = "SortByDuration" -> 0

Reverse(s) == [i \in 1..Len(s) |-> s[Len(s) + 1 - i]]

\* the identifiers of the catalog db that pass the three filters (an empty
\* filter passes everything), in ascending order of the sort key
Ascending(db, channel, topic, title, sortBy) ==
    LET all == [i \in 1..db |-> i]
        Passes(id) == /\ channel = "" \/ channelOf(id) = channel
                      /\ topic = "" \/ topicOf(id) = topic
                      /\ title = "" \/ titleOf(id) = title
        Low(id) == Passes(id) /\ rankOf(id, sortBy) = 0
        High(id) == Passes(id) /\ rankOf(id, sortBy) = 1
    IN  SelectSeq(all, Low) \o SelectSeq(all, High)

\* what the views and Application may call Model with
Channels == {"", "ARD", "ZDF"}

Topics == {"", "News"}

Titles == {"", "Tatort"}

SortColumns == -1..6

SortOrders == {"AscendingOrder", "DescendingOrder"}

SortKeys == {"SortByChannel", "SortByTopic", "SortByTitle", "SortByDate", "SortByTime",
             "SortByDuration"}

\* the catalogs Database may hold: none, two full fetch windows, the largest
Catalogs == {0, 2 * fetchSize, MaxShows}

\* catalogs a little larger than one fetch window, for the reads of the view
ViewCatalogs == {fetchSize + SpareShows - 1, fetchSize + SpareShows}

\* a catalog a little larger than the cache
CacheShows == cacheSize + SpareShows

\* the catalogs a decoded payload may stand for
PayloadCatalogs == 0..MaxRun

AllCatalogs == Catalogs \cup ViewCatalogs \cup {CacheShows} \cup PayloadCatalogs

\* the answers of Database::fetchId in ascending order, tabulated once
AscendingTable ==
    [q \in AllCatalogs \X Channels \X Topics \X Titles \X SortKeys |->
        Ascending(q[1], q[2], q[3], q[4], q[5])] @@ <<>>

\* Database::fetchId
DatabaseFetchId(db, channel, topic, title, sortBy, sortOrder) ==
    LET ascending == AscendingTable[<<db, channel, topic, title, sortBy>>]
    IN  IF sortOrder = "AscendingOrder" THEN ascending ELSE Reverse(ascending)

\* what a catalog says about a show differs from catalog to catalog
descriptionOf(db, id) == IF db % 2 = 0 THEN "Erstausstrahlung" ELSE "Wiederholung"

dateOf(id) == "2024-01-01"

timeOf(id) == IF id % 4 < 2 THEN "20:15:00" ELSE "21:45:00"

durationOf(id) == "01:30:00"

\* Database::fetchShow
DatabaseFetchShow(db, id) ==
    [channel |-> channelOf(id), topic |-> topicOf(id), title |-> titleOf(id),
     date |-> dateOf(id), time |-> timeOf(id), duration |-> durationOf(id),
     description |-> descriptionOf(db, id)]

\* Database::channels
DatabaseChannels(db) ==
    LET Has(c) == \E id \in 1..db : channelOf(id) = c
    IN  SelectSeq(<<"ARD", "ZDF">>, Has)

\* Database::topics(channel)
DatabaseTopics(db, channel) ==
    LET Has(t) == \E id \in 1..db :
                      (channel = "" \/ channelOf(id) = channel) /\ topicOf(id) = t
    IN  SelectSeq(<<"Kultur", "News", "Sport">>, Has)

(***************************************************************************)
(* Model                                                                    *)
(***************************************************************************)

ResetSignals == <<[signal |-> "modelAboutToBeReset", first |-> 0, last |-> 0],
                  [signal |-> "modelReset", first |-> 0, last |-> 0]>>

InsertSignals(first, last) ==
    <<[signal |-> "rowsAboutToBeInserted", first |-> first, last |-> last],
      [signal |-> "rowsInserted", first |-> first, last |-> last]>>

\* what a call of Model leaves behind: the fields, the signals, the Database calls
Done(m, signals, calls) == [model |-> m, emitted |-> signals, dbCalls |-> calls]

\* Model::rowCount, for the root index
rowCount(m) == m.m_fetched

\* Model::canFetchMore, for the root index
canFetchMore(m) == Len(m.m_id) > m.m_fetched

\* the switch of Model::fetchId
SortByOf(sortColumn) ==
    CASE sortColumn = 1 -> "SortByTopic"
      [] sortColumn = 2 -> "SortByTitle"
      [] sortColumn = 3 -> "SortByDate"
      [] sortColumn = 4 -> "SortByTime"
      [] sortColumn = 5 -> "SortByDuration"
      [] OTHER -> "SortByChannel"

\* Model::fetchId
fetchId(m, db) ==
    [m EXCEPT !.m_id = DatabaseFetchId(db, m.m_channel, m.m_topic, m.m_title,
                                       SortByOf(m.m_sortColumn), m.m_sortOrder),
              !.m_fetched = 0]

\* Model::fetchChannels
fetchChannels(m, db) == [m EXCEPT !.m_channels = <<"">> \o DatabaseChannels(db)]

\* Model::fetchTopics
fetchTopics(m, db) == [m EXCEPT !.m_topics = <<"">> \o DatabaseTopics(db, m.m_channel)]

\* Model::update
update(m, db) ==
    Done(fetchTopics(fetchChannels(fetchId(m, db), db), db),
         ResetSignals, <<"fetchId", "channels", "topics">>)

\* a filter that refreshes the topic list on every change
filterRefreshingTopics(m, db, channel, topic, title) ==
    IF m.m_channel = channel /\ m.m_topic = topic /\ m.m_title = title
    THEN Done(m, <<>>, <<>>)
    ELSE LET m1 == fetchTopics([m EXCEPT !.m_channel = channel], db)
             m2 == [m1 EXCEPT !.m_topic = topic, !.m_title = title]
         IN  Done(fetchId(m2, db), ResetSignals, <<"topics", "fetchId">>)

\* Model::filter
filter(m, db, channel, topic, title) ==
    IF m.m_channel = channel /\ m.m_topic = topic /\ m.m_title = title
    THEN Done(m, <<>>, <<>>)
    ELSE LET changed == m.m_channel # channel
             m1 == IF changed THEN fetchTopics([m EXCEPT !.m_channel = channel], db) ELSE m
             m2 == [m1 EXCEPT !.m_topic = topic, !.m_title = title]
         IN  Done(fetchId(m2, db), ResetSignals,
                  (IF changed THEN <<"topics">> ELSE <<>>) \o <<"fetchId">>)

\* a sort that does not compare the order
sortIgnoringOrder(m, db, column, order) ==
    IF column < 0 \/ column >= 6
    THEN Done(m, <<>>, <<>>)
    ELSE IF m.m_sortColumn = column
    THEN Done(m, <<>>, <<>>)
    ELSE Done(fetchId([m EXCEPT !.m_sortColumn = column, !.m_sortOrder = order], db),
              ResetSignals, <<"fetchId">>)

\* Model::sort
sort(m, db, column, order) ==
    IF column < 0 \/ column >= 6
    THEN Done(m, <<>>, <<>>)
    ELSE IF m.m_sortColumn = column /\ m.m_sortOrder = order
    THEN Done(m, <<>>, <<>>)
    ELSE Done(fetchId([m EXCEPT !.m_sortColumn = column, !.m_sortOrder = order], db),
              ResetSignals, <<"fetchId">>)

\* a fetchMore that always adds a whole window
FetchAmountWholeWindow(size, fetched) == fetchSize

\* a fetchMore that counts one row too many as remaining
FetchAmountPastEnd(size, fetched) == Min(fetchSize, size - fetched + 1)

\* the rows one call of Model::fetchMore adds
FetchAmount(size, fetched) == Min(fetchSize, size - fetched)

\* Model::fetchMore, for the root index
fetchMore(m) ==
    LET fetch == FetchAmount(Len(m.m_id), m.m_fetched)
    IN  Done([m EXCEPT !.m_fetched = @ + fetch],
             InsertSignals(m.m_fetched, m.m_fetched + fetch - 1), <<>>)

\* the identifiers m_cache holds
Keys(c) == {c[i].key : i \in 1..Len(c)}

NoShow == DatabaseFetchShow(0, 0)

\* a QCache::object that leaves the order of use alone
QCacheObjectWithoutRelink(c, key) ==
    IF key \in Keys(c)
    THEN LET i == CHOOSE i \in 1..Len(c) : c[i].key = key
         IN  [found |-> TRUE, object |-> c[i].object, cache |-> c]
    ELSE [found |-> FALSE, object |-> NoShow, cache |-> c]

\* QCache::object: a nullptr, or the object, which becomes the most recently
\* used one
QCacheObject(c, key) ==
    IF key \in Keys(c)
    THEN LET i == CHOOSE i \in 1..Len(c) : c[i].key = key
         IN  [found |-> TRUE, object |-> c[i].object,
              cache |-> <<c[i]>> \o SubSeq(c, 1, i - 1) \o SubSeq(c, i + 1, Len(c))]
    ELSE [found |-> FALSE, object |-> NoShow, cache |-> c]

\* QCache::insert with cost 1: replaces the key, drops the least recently used
\* objects until the new one fits, and puts the new one first
QCacheInsert(c, key, object) ==
    LET rest == SelectSeq(c, LAMBDA e : e.key # key)
        trimmed == IF Len(rest) > cacheSize - 1 THEN SubSeq(rest, 1, cacheSize - 1)
                   ELSE rest
    IN  IF 1 > cacheSize THEN rest
        ELSE <<[key |-> key, object |-> object]>> \o trimmed

\* what a read leaves behind: the value, the cache, the Database calls
Fetched(value, c, calls) == [value |-> value, cache |-> c, dbCalls |-> calls]

\* a fetchField that does not keep the show it fetched
fetchFieldWithoutInsert(c, db, id, field) ==
    LET got == QCacheObject(c, id)
    IN  IF got.found
        THEN Fetched(got.object[field], got.cache, <<>>)
        ELSE Fetched(DatabaseFetchShow(db, id)[field], c, <<"fetchShow">>)

\* Model::fetchField
fetchField(c, db, id, field) ==
    LET got == QCacheObject(c, id)
    IN  IF got.found
        THEN Fetched(got.object[field], got.cache, <<>>)
        ELSE LET show == DatabaseFetchShow(db, id)
             IN  Fetched(show[field], QCacheInsert(c, id, show), <<"fetchShow">>)

\* QModelIndex()
InvalidIndex == [valid |-> FALSE, row |-> -1, column |-> -1, internalId |-> 0]

\* Model::index, for the root index as parent
index(m, row, column) ==
    IF column < 0 \/ column >= 6
    THEN InvalidIndex
    ELSE IF row < 0 \/ row >= Len(m.m_id)
    THEN InvalidIndex
    ELSE [valid |-> TRUE, row |-> row, column |-> column, internalId |-> m.m_id[row + 1]]

\* QDate::toString(tr("dd.MM.yy"))
QDateToString(date) == CASE date = "2024-01-01" -> "01.01.24" [] OTHER -> ""

\* QTime::toString(tr("hh:mm")) and QTime::toString(tr("hh:mm:ss"))
QTimeToString(time, format) ==
    IF format = "hh:mm:ss" THEN time
    ELSE CASE time = "20:15:00" -> "20:15" [] time = "21:45:00" -> "21:45" [] OTHER -> ""

\* Model::data
data(c, db, idx, role) ==
    IF role # "DisplayRole"
    THEN Fetched("", c, <<>>)
    ELSE IF ~idx.valid
    THEN Fetched("", c, <<>>)
    ELSE CASE idx.column = 0 -> fetchField(c, db, idx.internalId, "channel")
           [] idx.column = 1 -> fetchField(c, db, idx.internalId, "topic")
           [] idx.column = 2 -> fetchField(c, db, idx.internalId, "title")
           [] idx.column = 3 ->
                LET r == fetchField(c, db, idx.internalId, "date")
                IN  Fetched(QDateToString(r.value), r.cache, r.dbCalls)
           [] idx.column = 4 ->
                LET r == fetchField(c, db, idx.internalId, "time")
                IN  Fetched(QTimeToString(r.value, "hh:mm"), r.cache, r.dbCalls)
           [] idx.column = 5 ->
                LET r == fetchField(c, db, idx.internalId, "duration")
                IN  Fetched(QTimeToString(r.value, "hh:mm:ss"), r.cache, r.dbCalls)
           [] OTHER -> Fetched("", c, <<>>)

\* Model::description
description(c, db, idx) ==
    IF ~idx.valid
    THEN Fetched("", c, <<>>)
    ELSE fetchField(c, db, idx.internalId, "description")

\* no field has been read yet
NoRead == [row |-> -1, role |-> "", index |-> InvalidIndex, hit |-> FALSE, value |-> ""]

\* the view is not in the middle of reading rows
NotPainting == [next |-> 0, last |-> -1]

\* the fields before the constructor's body runs
NewModel ==
    [m_channel |-> "", m_topic |-> "", m_title |-> "",
     m_sortColumn |-> 0, m_sortOrder |-> "AscendingOrder",
     m_id |-> <<>>, m_fetched |-> 0, m_channels |-> <<>>, m_topics |-> <<>>]

\* Model::Model over the catalog db
Constructed(db) ==
    /\ database = db
    /\ model = update(NewModel, db).model
    /\ emitted = <<>>
    /\ dbCalls = <<>>
    /\ lastCall = [op |-> "Model", differs |-> FALSE, valid |-> TRUE, rewound |-> FALSE]
    /\ fetchCalls = 0
    /\ aborted = FALSE
    /\ cache = <<>>
    /\ lastRead = NoRead
    /\ painting = NotPainting

\* a call of Model has run and left r behind
Called(r, op, differs, valid) ==
    /\ model' = r.model
    /\ emitted' = r.emitted
    /\ dbCalls' = r.dbCalls
    /\ lastCall' = [op |-> op, differs |-> differs, valid |-> valid,
                    rewound |-> /\ r.emitted = ResetSignals
                                /\ model.m_fetched > 0
                                /\ r.model.m_id = model.m_id]

\* the view calls Model::filter
Filter(channel, topic, title) ==
    /\ ~aborted
    /\ Called(filter(model, database, channel, topic, title), "filter",
              channel # model.m_channel \/ topic # model.m_topic \/ title # model.m_title,
              TRUE)
    /\ fetchCalls' = IF emitted' = <<>> THEN fetchCalls ELSE 0
    /\ UNCHANGED <<database, aborted, cache, lastRead, painting>>
    /\ UNCHANGED appVars
    /\ UNCHANGED chunkVars
    /\ UNCHANGED download

\* the view calls Model::sort
Sort(column, order) ==
    /\ ~aborted
    /\ Called(sort(model, database, column, order), "sort",
              column # model.m_sortColumn \/ order # model.m_sortOrder,
              column \in 0..5)
    /\ fetchCalls' = IF emitted' = <<>> THEN fetchCalls ELSE 0
    /\ UNCHANGED <<database, aborted, cache, lastRead, painting>>
    /\ UNCHANGED appVars
    /\ UNCHANGED chunkVars
    /\ UNCHANGED download

\* the view calls Model::fetchMore; beginInsertRows asserts last >= first, so a
\* call that adds no rows either ends the process (Qt built with assertions) or
\* emits the signals with the empty range first..first-1
FetchMore ==
    /\ ~aborted
    /\ LET r == fetchMore(model)
       IN  \/ /\ r.model.m_fetched = model.m_fetched
              /\ aborted' = TRUE
              /\ lastCall' = [op |-> "fetchMore", differs |-> FALSE, valid |-> TRUE,
                              rewound |-> FALSE]
              /\ UNCHANGED <<model, emitted, dbCalls>>
           \/ /\ Called(r, "fetchMore", FALSE, TRUE)
              /\ aborted' = aborted
    /\ fetchCalls' = IF canFetchMore(model) THEN fetchCalls + 1 ELSE fetchCalls
    /\ UNCHANGED <<database, cache, lastRead, painting>>
    /\ UNCHANGED appVars
    /\ UNCHANGED chunkVars
    /\ UNCHANGED download

\* a Database::updated that Model is not connected to
ModelUpdateUnconnected(c) ==
    /\ database' = c
    /\ UNCHANGED <<model, emitted, dbCalls, lastCall, fetchCalls, aborted,
                   cache, lastRead, painting>>

\* the slot Model::update, run for Database::updated over the catalog c
ModelUpdate(c) ==
    /\ database' = c
    /\ Called(update(model, c), "update", FALSE, TRUE)
    /\ fetchCalls' = 0
    /\ UNCHANGED <<aborted, cache, lastRead, painting>>

\* a Model::update that empties m_cache
DatabaseUpdatedClearingCache(c) ==
    /\ ~aborted
    /\ database' = c
    /\ Called(update(model, c), "update", FALSE, TRUE)
    /\ fetchCalls' = 0
    /\ cache' = <<>>
    /\ UNCHANGED <<aborted, lastRead, painting>>
    /\ UNCHANGED appVars
    /\ UNCHANGED chunkVars
    /\ UNCHANGED download

\* Database::updated, connected to Model::update: the catalog is now c
DatabaseUpdated(c) ==
    /\ ~aborted
    /\ ModelUpdate(c)
    /\ UNCHANGED appVars
    /\ UNCHANGED chunkVars
    /\ UNCHANGED download

\* a read of a field has run: r is what it left behind, idx the index it used
Read(r, op, row, role, idx) ==
    /\ cache' = r.cache
    /\ dbCalls' = r.dbCalls
    /\ emitted' = <<>>
    /\ lastCall' = [op |-> op, differs |-> FALSE, valid |-> TRUE, rewound |-> FALSE]
    /\ lastRead' = [row |-> row, role |-> role, index |-> idx,
                    hit |-> idx.valid /\ idx.internalId \in Keys(cache),
                    value |-> r.value]
    /\ UNCHANGED <<database, model, fetchCalls, aborted>>

\* the view asks for a cell: Model::index, then Model::data on what it returned
Data(row, column, role) ==
    /\ ~aborted
    /\ LET idx == index(model, row, column)
       IN  Read(data(cache, database, idx, role), "data", row, role, idx)
    /\ UNCHANGED painting
    /\ UNCHANGED appVars
    /\ UNCHANGED chunkVars
    /\ UNCHANGED download

\* the view asks for the description of a row: Model::index, then
\* Model::description
Description(row) ==
    /\ ~aborted
    /\ LET idx == index(model, row, 0)
       IN  Read(description(cache, database, idx), "description", row, "", idx)
    /\ UNCHANGED painting
    /\ UNCHANGED appVars
    /\ UNCHANGED chunkVars
    /\ UNCHANGED download

\* the view is to show the rows first..last, all of them rows Model has
\* announced
Scroll(first, last) ==
    /\ ~aborted
    /\ painting.next > painting.last
    /\ 0 <= first /\ first <= last /\ last < rowCount(model)
    /\ painting' = [next |-> first, last |-> last]
    /\ UNCHANGED <<database, model, emitted, dbCalls, lastCall, fetchCalls, aborted,
                   cache, lastRead>>
    /\ UNCHANGED appVars
    /\ UNCHANGED chunkVars
    /\ UNCHANGED download

\* the view reads the next of the rows it is to show
PaintRow ==
    /\ ~aborted
    /\ painting.next <= painting.last
    /\ LET idx == index(model, painting.next, 0)
       IN  Read(data(cache, database, idx, "DisplayRole"), "data", painting.next,
                "DisplayRole", idx)
    /\ painting' = [painting EXCEPT !.next = @ + 1]
    /\ UNCHANGED appVars
    /\ UNCHANGED chunkVars
    /\ UNCHANGED download

(***************************************************************************)
(* Database, as far as Application drives it.                               *)
(***************************************************************************)
\* the catalog a decoded payload stands for: as many shows as it has bytes
CatalogOf(payload) == Len(payload)

\* Database::update(data): takes the decoded catalog and answers with
\* Database::updated or Database::failedToUpdate.  Application forwards them
\* as completedDatabaseUpdate or failedToUpdateDatabase, and Model::update is
\* the second slot of Database::updated
DatabaseUpdate(f, d, accepted) ==
    /\ dbUpdates' = Append(dbUpdates,
                           [fetch |-> f, data |-> d.m_data,
                            decoderError |-> d.m_stream.seq = "error"])
    /\ IF accepted
       THEN /\ settings' = [settings EXCEPT !.databaseUpdatedOn = DateAt(now)]
            /\ trace' = Append(trace, Entry("completedDatabaseUpdate", f, settings))
            /\ ModelUpdate(CatalogOf(d.m_data))
       ELSE /\ settings' = settings
            /\ trace' = Append(trace, Entry("failedToUpdateDatabase", f, settings))
            /\ UNCHANGED modelVars

(***************************************************************************)
(* The replies of updateDatabase.                                           *)
(***************************************************************************)
\* the readyRead lambda of updateDatabase
ReadyReadHandler(r) ==
    IF r.error
    THEN r
    ELSE [r EXCEPT !.decompressor = appendData(r.decompressor, r.avail),
                   !.avail = <<>>]

\* QNetworkReply::readyRead: k more bytes have arrived; once the transfer has
\* broken nothing more arrives, but a readyRead may still be delivered
ReadyRead(f, k) ==
    /\ started /\ ~crashed
    /\ replies[f].phase = "running"
    /\ IF replies[f].error THEN k = 0 ELSE k \in 1..Len(replies[f].body)
    /\ LET r == [replies[f] EXCEPT !.avail = @ \o Take(replies[f].body, k),
                                   !.body = Drop(@, k)]
       IN  replies' = [replies EXCEPT ![f] = ReadyReadHandler(r)]
    /\ UNCHANGED <<started, settings, now, timers, mirrorReply, trace, dbUpdates, crashed>>
    /\ UNCHANGED modelVars
    /\ UNCHANGED chunkVars
    /\ UNCHANGED download

\* the last bytes arrive together with the end of the transfer, without a
\* readyRead of their own: they stay in the reply's buffer for the finished handler
Buffered(f) ==
    /\ started /\ ~crashed
    /\ replies[f].phase = "running" /\ ~replies[f].error
    /\ replies[f].body # <<>>
    /\ replies' = [replies EXCEPT ![f].avail = @ \o replies[f].body,
                                  ![f].body = <<>>]
    /\ UNCHANGED <<started, settings, now, timers, mirrorReply, trace, dbUpdates, crashed>>
    /\ UNCHANGED modelVars
    /\ UNCHANGED chunkVars
    /\ UNCHANGED download

\* the transfer breaks: reply->error() is set from now on
NetworkError(f) ==
    /\ started /\ ~crashed
    /\ replies[f].phase = "running" /\ ~replies[f].error
    /\ replies' = [replies EXCEPT ![f].error = TRUE]
    /\ UNCHANGED <<started, settings, now, timers, mirrorReply, trace, dbUpdates, crashed>>
    /\ UNCHANGED modelVars
    /\ UNCHANGED chunkVars
    /\ UNCHANGED download

\* a finished lambda that hands the buffer over without reading what is left
\* in the reply
FinishedHandlerWithoutTrailing(f, accepted) ==
    LET r == replies[f]
    IN  IF r.error
        THEN /\ replies' = [replies EXCEPT ![f].phase = "finished"]
             /\ trace' = Append(trace, Entry("failedToUpdateDatabase", f, settings))
             /\ UNCHANGED <<settings, dbUpdates>>
             /\ UNCHANGED modelVars
        ELSE /\ replies' = [replies EXCEPT ![f].phase = "finished"]
             /\ DatabaseUpdate(f, r.decompressor, accepted)

\* a finished lambda that does not look at reply->error()
FinishedHandlerIgnoringError(f, accepted) ==
    LET r == replies[f]
        d == appendData(r.decompressor, r.avail)
    IN  /\ replies' = [replies EXCEPT ![f].phase = "finished",
                                      ![f].decompressor = d,
                                      ![f].avail = <<>>]
        /\ DatabaseUpdate(f, d, accepted)

\* the finished lambda of updateDatabase
FinishedHandler(f, accepted) ==
    LET r == replies[f]
    IN  IF r.error
        THEN /\ replies' = [replies EXCEPT ![f].phase = "finished"]
             /\ trace' = Append(trace, Entry("failedToUpdateDatabase", f, settings))
             /\ UNCHANGED <<settings, dbUpdates>>
             /\ UNCHANGED modelVars
        ELSE LET d == appendData(r.decompressor, r.avail)
             IN  /\ replies' = [replies EXCEPT ![f].phase = "finished",
                                               ![f].decompressor = d,
                                               ![f].avail = <<>>]
                 /\ DatabaseUpdate(f, d, accepted)

\* QNetworkReply::finished of a catalog reply: after an error, or once the
\* whole body has arrived
Finished(f) ==
    /\ started /\ ~crashed
    /\ replies[f].phase = "running"
    /\ replies[f].error \/ replies[f].body = <<>>
    /\ \E accepted \in BOOLEAN : FinishedHandler(f, accepted)
    /\ UNCHANGED <<started, now, timers, mirrorReply, crashed>>
    /\ UNCHANGED chunkVars
    /\ UNCHANGED download

\* reply->deleteLater() takes effect: the reply goes with its buffers, and so do
\* the lambdas, which held the last references to the decompressor
DeferredDelete(f) ==
    /\ started /\ ~crashed
    /\ replies[f].phase = "finished"
    /\ replies' = [replies EXCEPT ![f].phase = "deleted", ![f].decompressor = Destroyed,
                                  ![f].body = <<>>, ![f].avail = <<>>]
    /\ UNCHANGED <<started, settings, now, timers, mirrorReply, trace, dbUpdates, crashed>>
    /\ UNCHANGED modelVars
    /\ UNCHANGED chunkVars
    /\ UNCHANGED download

(***************************************************************************)
(* DownloadDialog.  The record download holds the dialog (shown, or          *)
(* destroyed after it was closed), m_networkReply with the bytes still to    *)
(* come (body), the bytes arrived and not read (avail) and reply->error(),   *)
(* the QFile m_file points to, and the file on disk: whether it exists,      *)
(* whether a QFile still holds it open, and its content.  transfers counts  *)
(* the QNetworkReply objects of the dialog that are still running and       *)
(* connected to its slots; nullDeref says that a slot went through a null   *)
(* m_networkReply or m_file, after which nothing is known.                  *)
(***************************************************************************)
\* Application::download has not been called
NoDownload ==
    [dialog |-> "none", m_networkReply |-> "nullptr", m_file |-> "nullptr",
     startEnabled |-> FALSE, cancelEnabled |-> FALSE,
     body |-> <<>>, avail |-> <<>>, error |-> FALSE, wanted |-> <<>>,
     exists |-> FALSE, open |-> FALSE, content |-> <<>>, ended |-> "none",
     transfers |-> 0, nullDeref |-> FALSE]

\* the longest media file a server sends
MaxBody == 5

\* the media files a server may send
DownloadBodies == {[i \in 1..n |-> i] : n \in 1..MaxBody}

\* Application::download: DownloadDialog::DownloadDialog; the start button
\* is disabled from the beginning when the show has none of the three URLs
OpenDialog ==
    /\ download.dialog = "none"
    /\ \E hasUrl \in BOOLEAN :
          download' = [download EXCEPT !.dialog = "shown", !.startEnabled = hasUrl,
                                       !.cancelEnabled = FALSE]
    /\ UNCHANGED <<appVars, modelVars, chunkVars>>

\* a start slot that leaves the buttons as they are
StartLeavingButtons(opens) ==
    /\ download.dialog = "shown" /\ download.startEnabled /\ ~download.nullDeref
    /\ IF ~opens
       THEN download' = [download EXCEPT !.m_file = "nullptr"]
       ELSE \E body \in DownloadBodies :
               download' = [download EXCEPT !.m_file = "QFile", !.exists = TRUE,
                                            !.open = TRUE, !.content = <<>>,
                                            !.m_networkReply = "reply",
                                            !.transfers = @ + 1,
                                            !.body = body, !.avail = <<>>,
                                            !.error = FALSE, !.wanted = body,
                                            !.ended = "none"]
    /\ UNCHANGED <<appVars, modelVars, chunkVars>>

\* DownloadDialog::start, pressed while the start button is enabled, with the
\* file opening or not
Start(opens) ==
    /\ download.dialog = "shown" /\ download.startEnabled /\ ~download.nullDeref
    /\ IF ~opens
       THEN download' = [download EXCEPT !.m_file = "nullptr"]
       ELSE \E body \in DownloadBodies :
               download' = [download EXCEPT !.m_file = "QFile", !.exists = TRUE,
                                            !.open = TRUE, !.content = <<>>,
                                            !.m_networkReply = "reply",
                                            !.transfers = @ + 1,
                                            !.body = body, !.avail = <<>>,
                                            !.error = FALSE, !.wanted = body,
                                            !.startEnabled = FALSE,
                                            !.cancelEnabled = TRUE,
                                            !.ended = "none"]
    /\ UNCHANGED <<appVars, modelVars, chunkVars>>

\* DownloadDialog::readyRead, on the dialog state d
DownloadReadyReadHandler(d) ==
    IF d.m_networkReply = "nullptr" THEN [d EXCEPT !.nullDeref = TRUE]
    ELSE IF d.error THEN d
    ELSE IF d.m_file = "nullptr" THEN [d EXCEPT !.nullDeref = TRUE]
    ELSE [d EXCEPT !.content = @ \o d.avail, !.avail = <<>>]

\* QNetworkReply::readyRead of the download: k more bytes have arrived; after
\* an error nothing more arrives, but a readyRead may still be delivered
DownloadReadyRead(k) ==
    /\ download.dialog = "shown" /\ download.transfers > 0 /\ ~download.nullDeref
    /\ IF download.error THEN k = 0 ELSE k \in 1..Len(download.body)
    /\ download' = DownloadReadyReadHandler(
                       [download EXCEPT !.avail = @ \o Take(download.body, k),
                                        !.body = Drop(@, k)])
    /\ UNCHANGED <<appVars, modelVars, chunkVars>>

\* the last bytes arrive together with the end of the transfer and wait in the
\* reply for the finished slot
DownloadBuffered ==
    /\ download.dialog = "shown" /\ download.transfers > 0 /\ ~download.nullDeref
    /\ ~download.error /\ download.body # <<>>
    /\ download' = [download EXCEPT !.avail = @ \o download.body, !.body = <<>>]
    /\ UNCHANGED <<appVars, modelVars, chunkVars>>

\* the transfer breaks
DownloadError ==
    /\ download.dialog = "shown" /\ download.transfers > 0 /\ ~download.nullDeref
    /\ ~download.error
    /\ download' = [download EXCEPT !.error = TRUE]
    /\ UNCHANGED <<appVars, modelVars, chunkVars>>

\* DownloadDialog::finished, on the dialog state d; how says what ended the
\* transfer when reply->error() is set
DownloadFinishedHandler(d, how) ==
    IF d.m_networkReply = "nullptr" \/ d.m_file = "nullptr"
    THEN [d EXCEPT !.nullDeref = TRUE]
    ELSE IF d.error
    THEN [d EXCEPT !.m_networkReply = "nullptr", !.m_file = "nullptr",
                   !.open = FALSE, !.exists = FALSE, !.content = <<>>,
                   !.body = <<>>, !.avail = <<>>, !.transfers = @ - 1,
                   !.startEnabled = TRUE, !.cancelEnabled = FALSE, !.ended = how]
    ELSE [d EXCEPT !.m_networkReply = "nullptr", !.m_file = "nullptr",
                   !.open = FALSE, !.content = @ \o d.avail,
                   !.body = <<>>, !.avail = <<>>, !.transfers = @ - 1,
                   !.startEnabled = FALSE, !.cancelEnabled = FALSE,
                   !.ended = "finished"]

\* QNetworkReply::finished of the download: after an error, or once the whole
\* body has arrived
DownloadFinished ==
    /\ download.dialog = "shown" /\ download.transfers > 0 /\ ~download.nullDeref
    /\ download.error \/ download.body = <<>>
    /\ download' = DownloadFinishedHandler(download, "failed")
    /\ UNCHANGED <<appVars, modelVars, chunkVars>>

\* DownloadDialog::cancel, pressed while the cancel button is enabled:
\* QNetworkReply::abort sets the error and emits finished at once
Cancel ==
    /\ download.dialog = "shown" /\ download.cancelEnabled /\ ~download.nullDeref
    /\ download' = IF download.m_networkReply = "nullptr"
                   THEN [download EXCEPT !.nullDeref = TRUE]
                   ELSE DownloadFinishedHandler([download EXCEPT !.error = TRUE],
                                                "cancelled")
    /\ UNCHANGED <<appVars, modelVars, chunkVars>>

\* the user closes the dialog, which has WA_DeleteOnClose:
\* DownloadDialog::~DownloadDialog deletes a running reply, which emits
\* nothing any more; m_file is not touched, so its QFile stays as it is
CloseDialog ==
    /\ download.dialog = "shown"
    /\ download' = [download EXCEPT !.dialog = "destroyed",
                                     !.m_networkReply = "nullptr",
                                     !.transfers = IF download.m_networkReply = "reply"
                                                   THEN @ - 1 ELSE @,
                                     !.body = <<>>, !.avail = <<>>,
                                     !.startEnabled = FALSE, !.cancelEnabled = FALSE,
                                     !.ended = IF download.m_networkReply = "reply"
                                               THEN "closed" ELSE @]
    /\ UNCHANGED <<appVars, modelVars, chunkVars>>

(***************************************************************************)
(* The application as a whole.                                              *)
(***************************************************************************)
Hour == 60 * 60

\* the time the application starts at: day 3, 01:00
StartTime == 3 * SecsPerDay + Hour

\* stored mirror lists with their timestamps: none yet, or one fetched
\* yesterday (two hours ago) or the day before
StoredMirrorLists ==
    {[mirrorList |-> <<>>, updatedOn |-> InvalidDate]}
    \cup {[mirrorList |-> <<"http://old">>, updatedOn |-> DateAt(StartTime - age)] :
            age \in {2 * Hour, SecsPerDay + 2 * Hour}}

\* stored catalog timestamps: none, or one and a half or two hours old
StoredDatabaseDates ==
    {InvalidDate} \cup {DateAt(StartTime - age) : age \in {3 * (Hour \div 2), 2 * Hour}}

Init ==
    /\ started = FALSE
    /\ now = StartTime
    /\ \E m \in StoredMirrorLists : \E d \in StoredDatabaseDates :
          settings = [mirrorList |-> m.mirrorList,
                      mirrorListUpdatedOn |-> m.updatedOn,
                      databaseUpdatedOn |-> d,
                      mirrorListUpdateAfterDays |-> 1,
                      databaseUpdateAfterHours |-> 1]
    /\ timers = {}
    /\ mirrorReply = [phase |-> "none", error |-> FALSE, document |-> NoDocument]
    /\ replies = <<>>
    /\ trace = <<>>
    /\ dbUpdates = <<>>
    /\ crashed = FALSE
    /\ NoFeed
    /\ download = NoDownload
    /\ Constructed(0)

Next ==
    \/ Exec
    \/ CheckUpdateMirrorList
    \/ MirrorListFinished
    \/ TimerCheckUpdateDatabase
    \/ ManualUpdate
    \/ \E f \in DOMAIN replies : \E k \in 0..Len(replies[f].body) : ReadyRead(f, k)
    \/ \E f \in DOMAIN replies : Buffered(f)
    \/ \E f \in DOMAIN replies : NetworkError(f)
    \/ \E f \in DOMAIN replies : Finished(f)
    \/ \E f \in DOMAIN replies : DeferredDelete(f)

Spec == Init /\ [][Next]_vars

\* the result model on its own: Application is constructed and idle, the
\* views and the Database drive Model
ApplicationIdle ==
    /\ started = FALSE
    /\ now = StartTime
    /\ settings = [mirrorList |-> <<>>,
                   mirrorListUpdatedOn |-> InvalidDate,
                   databaseUpdatedOn |-> InvalidDate,
                   mirrorListUpdateAfterDays |-> 1,
                   databaseUpdateAfterHours |-> 1]
    /\ timers = {}
    /\ mirrorReply = [phase |-> "none", error |-> FALSE, document |-> NoDocument]
    /\ replies = <<>>
    /\ trace = <<>>
    /\ dbUpdates = <<>>
    /\ crashed = FALSE
    /\ NoFeed
    /\ download = NoDownload

ModelInit == ApplicationIdle /\ \E c \in Catalogs : Constructed(c)

ModelNext ==
    \/ \E channel \in Channels : \E topic \in Topics : \E title \in Titles :
          Filter(channel, topic, title)
    \/ \E column \in SortColumns : \E order \in SortOrders : Sort(column, order)
    \/ FetchMore
    \/ \E c \in Catalogs : DatabaseUpdated(c)

ModelSpec == ModelInit /\ [][ModelNext]_vars

\* the shows the view keeps looking at
MaxCached == 1

\* the cells the view asks for in a row: a column and a role
ViewCells == {<<0, "DisplayRole">>, <<4, "DisplayRole">>, <<6, "DisplayRole">>,
              <<0, "EditRole">>}

\* the rows the view asks for: none, the first, the first not announced yet,
\* the first beyond the identifiers
ViewRows == {-1, 0, rowCount(model), Len(model.m_id)}

\* the result model with a view that reads cells and descriptions
ViewInit == ApplicationIdle /\ \E c \in ViewCatalogs : Constructed(c)

ViewNext ==
    \/ \E row \in ViewRows : \E cell \in ViewCells :
          Data(row, cell[1], cell[2]) /\ Len(cache') <= MaxCached
    \/ \E row \in ViewRows : Description(row) /\ Len(cache') <= MaxCached
    \/ \E channel \in {"", "ZDF"} : Filter(channel, "", "")
    \/ \E order \in SortOrders : Sort(0, order)
    \/ FetchMore
    \/ \E c \in ViewCatalogs : DatabaseUpdated(c)

ViewSpec == ViewInit /\ [][ViewNext]_vars

\* the result model with a view that fills the cache: it shows the first
\* cacheSize rows, or one more, reading them top down in one go, and looks at
\* single cells before and after
CacheInit == ApplicationIdle /\ Constructed(CacheShows)

CacheNext ==
    \/ painting.next > painting.last /\ FetchMore
    \/ \E last \in {cacheSize - 1, cacheSize} : cache = <<>> /\ Scroll(0, last)
    \/ PaintRow
    \/ \E row \in {0, 1, cacheSize} :
          /\ painting.next > painting.last
          /\ row < rowCount(model)
          /\ Data(row, 0, "DisplayRole")

CacheSpec == CacheInit /\ [][CacheNext]_vars

\* the application over a stored catalog of one show, with neither a mirror
\* list nor a catalog timestamp stored, and with a view that filters by
\* channel and fetches rows while the catalog is refreshed
UpdateInit ==
    /\ started = FALSE
    /\ now = StartTime
    /\ settings = [mirrorList |-> <<>>,
                   mirrorListUpdatedOn |-> InvalidDate,
                   databaseUpdatedOn |-> InvalidDate,
                   mirrorListUpdateAfterDays |-> 1,
                   databaseUpdateAfterHours |-> 1]
    /\ timers = {}
    /\ mirrorReply = [phase |-> "none", error |-> FALSE, document |-> NoDocument]
    /\ replies = <<>>
    /\ trace = <<>>
    /\ dbUpdates = <<>>
    /\ crashed = FALSE
    /\ NoFeed
    /\ download = NoDownload
    /\ Constructed(1)

UpdateNext ==
    \/ Next
    \/ \E channel \in {"", "ZDF"} : Filter(channel, "", "")
    \/ canFetchMore(model) /\ FetchMore

UpdateSpec == UpdateInit /\ [][UpdateNext]_vars

\* a Decompressor on its own, fed a compressed stream in chunks of any sizes
ChunkInit ==
    /\ started = FALSE
    /\ now = StartTime
    /\ settings = [mirrorList |-> <<>>,
                   mirrorListUpdatedOn |-> InvalidDate,
                   databaseUpdatedOn |-> InvalidDate,
                   mirrorListUpdateAfterDays |-> 1,
                   databaseUpdateAfterHours |-> 1]
    /\ timers = {}
    /\ mirrorReply = [phase |-> "none", error |-> FALSE, document |-> NoDocument]
    /\ replies = <<>>
    /\ trace = <<>>
    /\ dbUpdates = <<>>
    /\ crashed = FALSE
    /\ Constructed(0)
    /\ sent \in ChunkStreams
    /\ unfed = sent
    /\ fed = NewDecompressor
    /\ feeding = [chunks |-> 0, empty |-> 0, calls |-> 0]
    /\ download = NoDownload

ChunkNext == \E k \in 0..MaxStream : Feed(k)

ChunkSpec == ChunkInit /\ [][ChunkNext]_vars

\* a download dialog on its own
DownloadInit == ApplicationIdle /\ Constructed(0)

DownloadNext ==
    \/ OpenDialog
    \/ \E opens \in BOOLEAN : Start(opens)
    \/ \E k \in 0..Len(download.body) : DownloadReadyRead(k)
    \/ DownloadBuffered
    \/ DownloadError
    \/ DownloadFinished
    \/ Cancel
    \/ CloseDialog

DownloadSpec == DownloadInit /\ [][DownloadNext]_vars

\* the event loop runs every slot queued by QTimer::singleShot
FairSpec == Spec /\ WF_vars(TimerCheckUpdateDatabase)

(***************************************************************************)
(* Properties of the update orchestration.                                  *)
(***************************************************************************)
Ended(f) == replies[f].phase \in {"finished", "deleted"}

UpdatesOf(f) == {i \in DOMAIN dbUpdates : dbUpdates[i].fetch = f}

\* C1: a catalog fetch that ended with a transport error, whatever had been
\* received and decoded before, never reached Database::update, emitted
\* failedToUpdateDatabase exactly once and nothing else after its start, is no
\* longer in flight, and its decoded output is gone with the reply.
C1_TransportErrorDiscardsFetch ==
    \A f \in DOMAIN replies :
        (replies[f].error /\ Ended(f)) =>
            /\ UpdatesOf(f) = {}
            /\ Count(trace, "failedToUpdateDatabase", f) = 1
            /\ Count(trace, "completedDatabaseUpdate", f) = 0
            /\ f \notin InFlight
            /\ replies[f].phase = "deleted" => replies[f].decompressor.m_data = <<>>

\* C1 witness: a fetch has ended with a transport error after part of the
\* stream had been fed and decoded.
C1_Witness ==
    \E f \in DOMAIN replies :
        /\ replies[f].error
        /\ replies[f].phase = "finished"
        /\ replies[f].decompressor.m_data # <<>>

\* C2: no call of Database::update carries the buffer of a decompressor whose
\* decoder reported a corrupt stream.
C2_DecoderErrorAbortsFetch ==
    \A i \in DOMAIN dbUpdates : ~dbUpdates[i].decoderError

\* C3: at most one catalog fetch is in flight at any time.
C3_AtMostOneCatalogFetch == Cardinality(InFlight) <= 1

MirrorFetchFailed ==
    /\ mirrorReply.phase = "finished"
    /\ \/ mirrorReply.error
       \/ mirrorReply.document.root # "Mediathek"
       \/ ParseMirrorList(mirrorReply.document.children) = <<>>

MirrorFetchSucceeded == mirrorReply.phase = "finished" /\ ~MirrorFetchFailed

\* C4: a step changes the stored mirror list or its timestamp only if it is the
\* end of a mirror-list fetch without transport error whose document has the
\* root Mediathek and yields at least one URL; the list stored is then that one.
C4_MirrorListChangesOnlyOnSuccess ==
    [][ (\/ settings'.mirrorList # settings.mirrorList
         \/ settings'.mirrorListUpdatedOn # settings.mirrorListUpdatedOn)
        => /\ mirrorReply.phase = "running"
           /\ MirrorFetchSucceeded'
           /\ settings'.mirrorList = ParseMirrorList(mirrorReply'.document.children)
           /\ settings'.mirrorListUpdatedOn = DateAt(now) ]_vars

\* C4 witness: a document with the root Foo has been received and the list
\* stored before is still there.
C4_Witness ==
    /\ mirrorReply.phase = "finished"
    /\ ~mirrorReply.error
    /\ mirrorReply.document.root = "Foo"
    /\ settings.mirrorList = <<"http://old">>
    /\ settings.mirrorListUpdatedOn # DateAt(now)

\* C5: once the mirror-list fetch has failed, one failure event and no
\* completion event has been emitted for it, no catalog check has run or is
\* queued, no second mirror-list fetch was started, and every catalog fetch
\* there is was started by a manual update request.
C5_NoFetchAfterMirrorFailure ==
    MirrorFetchFailed =>
        /\ Count(trace, "failedToUpdateMirrorList", 0) = 1
        /\ Count(trace, "completedMirrorListUpdate", 0) = 0
        /\ Count(trace, "startedMirrorListUpdate", 0) = 1
        /\ Count(trace, "checkUpdateDatabase", 0) = 0
        /\ timers = {}
        /\ \A f \in DOMAIN replies : replies[f].origin = "manual"

\* C5 witness: the mirror-list fetch has failed on an empty mirror set and a
\* manual update request has started a catalog fetch afterwards.
C5_Witness ==
    /\ MirrorFetchFailed
    /\ ~mirrorReply.error
    /\ mirrorReply.document.root = "Mediathek"
    /\ \E f \in DOMAIN replies : replies[f].origin = "manual"
    /\ trace[Len(trace)].what = "startedDatabaseUpdate"

Position(what) == {i \in DOMAIN trace : trace[i].what = what /\ trace[i].fetch = 0}

\* the order of a successful mirror-list fetch, as far as a state shows it
MirrorSuccessOrder ==
    MirrorFetchSucceeded =>
        LET parsed == ParseMirrorList(mirrorReply.document.children)
        IN  /\ settings.mirrorList = parsed
            /\ \A i \in Position("completedMirrorListUpdate") :
                  /\ trace[i].mirrorList = parsed
                  /\ trace[i].mirrorListUpdatedOn = DateAt(now)
                  /\ \A j \in Position("checkUpdateDatabase") :
                        i < j /\ trace[j].mirrorList = parsed
            /\ Cardinality(Position("completedMirrorListUpdate")) = 1
            /\ Cardinality(Position("checkUpdateDatabase")) <= 1
            /\ (Position("checkUpdateDatabase") = {}) = ("checkUpdateDatabase" \in timers)

\* C6: after a successful mirror-list fetch the list and timestamp were stored
\* before completedMirrorListUpdate was emitted, the catalog check runs after
\* that signal and sees the new list, and the catalog check does run.
C6_MirrorSuccessThenCatalogCheck ==
    /\ []MirrorSuccessOrder
    /\ MirrorFetchSucceeded ~> (Position("checkUpdateDatabase") # {})

\* C6 witness: the catalog check has run after a successful mirror-list fetch
\* that replaced an older list.
C6_Witness ==
    /\ MirrorFetchSucceeded
    /\ Position("checkUpdateDatabase") # {}
    /\ trace[1].mirrorList = <<"http://old">>
    /\ settings.mirrorList = <<"http://a", "http://b">>

\* a timestamp is stale by days when it is invalid or lies more day changes
\* back than the threshold, and by hours when it is invalid or at least one
\* full hour more than the threshold old
StaleByDays(updatedOn, threshold) ==
    ~updatedOn.valid \/ updatedOn.secs \div SecsPerDay + threshold < now \div SecsPerDay

StaleByHours(updatedOn, threshold) ==
    ~updatedOn.valid \/ updatedOn.secs + (threshold + 1) * Hour <= now

AutoFetchAt(i) ==
    /\ i \in DOMAIN trace
    /\ trace[i].what = "startedDatabaseUpdate"
    /\ trace[i].fetch \in DOMAIN replies
    /\ replies[trace[i].fetch].origin = "auto"

\* C7: the automatic cycle starts the mirror-list fetch exactly when the stored
\* timestamp is stale by days and otherwise goes straight to the catalog check;
\* a catalog check starts the catalog fetch exactly when the catalog timestamp
\* is stale by hours and otherwise starts nothing; no automatic catalog fetch
\* starts without a catalog check and no mirror-list fetch without a mirror-list
\* check.
C7_StalenessGating ==
    /\ \A i \in DOMAIN trace :
          trace[i].what = "checkUpdateMirrorList" =>
              /\ i + 1 \in DOMAIN trace
              /\ IF StaleByDays(trace[i].mirrorListUpdatedOn, settings.mirrorListUpdateAfterDays)
                 THEN trace[i + 1].what = "startedMirrorListUpdate"
                 ELSE trace[i + 1].what = "checkUpdateDatabase"
    /\ \A i \in DOMAIN trace :
          trace[i].what = "checkUpdateDatabase" =>
              (StaleByHours(trace[i].databaseUpdatedOn, settings.databaseUpdateAfterHours)
                  <=> AutoFetchAt(i + 1))
    /\ \A i \in DOMAIN trace :
          AutoFetchAt(i) => (i > 1 /\ trace[i - 1].what = "checkUpdateDatabase")
    /\ \A i \in DOMAIN trace :
          trace[i].what = "startedMirrorListUpdate" =>
              (i > 1 /\ trace[i - 1].what = "checkUpdateMirrorList")

\* C7 witness: the mirror list is one day change old and the catalog one and a
\* half hours, both at the threshold of 1: the cycle went to the catalog check
\* without a mirror-list fetch and the check started nothing.
C7_Witness ==
    /\ Len(trace) = 2
    /\ trace[1].what = "checkUpdateMirrorList"
    /\ trace[2].what = "checkUpdateDatabase"
    /\ trace[2].databaseUpdatedOn = DateAt(StartTime - 3 * (Hour \div 2))
    /\ trace[1].mirrorListUpdatedOn = DateAt(StartTime - 2 * Hour)
    /\ replies = <<>>
    /\ timers = {}

(***************************************************************************)
(* Properties of the result model.                                          *)
(***************************************************************************)
\* C8: while the query stays, the cursor after k calls of fetchMore made with
\* canFetchMore is min(N, 256 k), so it reaches N exactly after finitely many
\* calls; each such call leaves m_id alone, advances the cursor by
\* min(256, remaining), never by more than 256, and signals the rows it added.
C8_FetchMoreReachesEnd ==
    /\ [](/\ model.m_fetched = Min(Len(model.m_id), fetchCalls * fetchSize)
          /\ fetchCalls * fetchSize < Len(model.m_id) + fetchSize
          /\ ~canFetchMore(model) => model.m_fetched = Len(model.m_id))
    /\ [][fetchCalls' = fetchCalls + 1 =>
            LET step == model'.m_fetched - model.m_fetched
            IN  /\ model'.m_id = model.m_id
                /\ step = Min(fetchSize, Len(model.m_id) - model.m_fetched)
                /\ step \in 1..fetchSize
                /\ emitted' = InsertSignals(model.m_fetched, model'.m_fetched - 1)]_vars

\* C8 witness: the whole catalog of MaxShows shows is covered after three calls.
C8_Witness ==
    /\ Len(model.m_id) = MaxShows
    /\ model.m_fetched = MaxShows
    /\ fetchCalls = 3
    /\ lastCall.op = "fetchMore"

QueryOf(m) == <<m.m_channel, m.m_topic, m.m_title, m.m_sortColumn, m.m_sortOrder>>

\* the step reset the view for a changed query
ResetStep ==
    /\ QueryOf(model') # QueryOf(model)
    /\ emitted' = ResetSignals
    /\ model'.m_fetched = 0
    /\ model'.m_id = DatabaseFetchId(database, model'.m_channel, model'.m_topic,
                                     model'.m_title, SortByOf(model'.m_sortColumn),
                                     model'.m_sortOrder)
    /\ dbCalls'[Len(dbCalls')] = "fetchId"

\* the step left the model alone
IgnoredStep == model' = model /\ emitted' = <<>> /\ dbCalls' = <<>>

\* C9 as claimed: a filter or sort call resets cursor and sequence exactly when
\* its arguments differ from the current query, and is ignored otherwise.
C9_ResetIffQueryDiffers ==
    [][lastCall'.op \in {"filter", "sort"} =>
          IF lastCall'.differs THEN ResetStep ELSE IgnoredStep]_vars

\* C9 amended: a filter call resets exactly when a filter differs; a sort call
\* resets exactly when its column is one of 0..5 and column or order differ, and
\* is ignored for any other column.
C9_ResetIffValidQueryDiffers ==
    [][lastCall'.op \in {"filter", "sort"} =>
          IF lastCall'.differs /\ lastCall'.valid THEN ResetStep ELSE IgnoredStep]_vars

\* C9 witness: a sort call has rewound a cursor above 0 although the sequence
\* it computed is the one there was.
C9_Witness ==
    /\ lastCall.op = "sort"
    /\ lastCall.rewound
    /\ model.m_fetched = 0
    /\ Len(model.m_id) > fetchSize

\* C10: a call of fetchMore made without canFetchMore changes no field of the
\* model, emits no signal and does not end the process.
C10_FetchMoreIgnoredAtEnd ==
    [][(~canFetchMore(model) /\ (lastCall'.op = "fetchMore" \/ aborted'))
          => (model' = model /\ emitted' = <<>> /\ ~aborted')]_vars

\* C11: in every state reachable by filter, sort, fetchMore and catalog updates
\* the fetch cursor lies within 0..length of the identifier sequence, rowCount
\* is the cursor, and canFetchMore holds exactly when the cursor is below the
\* length.
C11_CursorWithinSequence ==
    /\ 0 <= model.m_fetched
    /\ model.m_fetched <= Len(model.m_id)
    /\ rowCount(model) = model.m_fetched
    /\ canFetchMore(model) <=> model.m_fetched < Len(model.m_id)

\* fetchMore has left the cursor strictly inside a filtered sequence
C11_Witness ==
    /\ lastCall.op = "fetchMore"
    /\ model.m_channel = "ARD"
    /\ 0 < rowCount(model)
    /\ rowCount(model) < Len(model.m_id)
    /\ canFetchMore(model)

\* the calls of Database::topics the last call of Model made
TopicQueries == Len(SelectSeq(dbCalls, LAMBDA c : c = "topics"))

\* C19: a filter call that changes the channel filter refreshes the topic list
\* from Database::topics for the new channel, once; a filter call that leaves
\* the channel as it is (changing topic or title at most) makes no topic query
\* and leaves the topic list alone.
C19_TopicsFollowChannel ==
    [][lastCall'.op = "filter" =>
          IF model'.m_channel # model.m_channel
          THEN /\ TopicQueries' = 1
               /\ model'.m_topics = <<"">> \o DatabaseTopics(database, model'.m_channel)
          ELSE /\ TopicQueries' = 0
               /\ model'.m_topics = model.m_topics]_vars

\* the channel filter went to ARD: the topic list is the one of ARD, which is
\* not the list of all channels
C19_Witness ==
    /\ lastCall.op = "filter"
    /\ TopicQueries = 1
    /\ model.m_channel = "ARD"
    /\ model.m_topics = <<"", "Kultur", "News">>
    /\ DatabaseTopics(database, "") = <<"Kultur", "News", "Sport">>

\* the step is a read of a field through Model::index
ReadStep == lastCall'.op \in {"data", "description"}

\* C12: a read of a row outside 0..rowCount-1, rows between the fetch cursor
\* and the end of the identifier sequence included, gets no valid index and
\* reads no show, neither from the cache nor from Database.
C12_NoReadOutsideRowCount ==
    [][(ReadStep /\ ~(0 <= lastRead'.row /\ lastRead'.row < rowCount(model)))
          => /\ ~lastRead'.index.valid
             /\ cache' = cache
             /\ dbCalls' = <<>>]_vars

\* the cache entry a read of the identifier key leaves in front
Used(key) ==
    IF key \in Keys(cache)
    THEN LET i == CHOOSE i \in 1..Len(cache) : cache[i].key = key IN cache[i]
    ELSE [key |-> key, object |-> DatabaseFetchShow(database, key)]

\* the cache without the identifier key
Others(key) == SelectSeq(cache, LAMBDA e : e.key # key)

\* C13: the cache never holds more than cacheSize shows.  Every read of a show
\* makes it the most recently used one, whether it was cached (a hit) or not
\* (an insertion), and leaves the others in their order of use; an insertion
\* into the full cache drops exactly the least recently used show.  So when the
\* rows 0..cacheSize, cacheSize + 1 distinct shows, have been read one after the
\* other into the empty cache, the first of them is gone and the cacheSize
\* later ones are cached.
C13_CacheIsBoundedLru ==
    /\ [](Len(cache) <= cacheSize /\ Cardinality(Keys(cache)) = Len(cache))
    /\ [][(ReadStep /\ lastRead'.index.valid) =>
            LET key == lastRead'.index.internalId
            IN  IF key \in Keys(cache) \/ Len(cache) < cacheSize
                THEN cache' = <<Used(key)>> \o Others(key)
                ELSE cache' = <<Used(key)>> \o SubSeq(cache, 1, cacheSize - 1)]_vars
    /\ [][(painting.last = cacheSize /\ painting.next = cacheSize
                                      /\ painting'.next = cacheSize + 1) =>
            /\ model.m_id[1] \notin Keys(cache')
            /\ \A row \in 1..cacheSize : model.m_id[row + 1] \in Keys(cache')]_vars

\* the cache was full, the show of row 0 was read again, and reading row
\* cacheSize then dropped the show of row 1
C13_Witness ==
    /\ Len(cache) = cacheSize
    /\ lastRead.row = cacheSize /\ ~lastRead.hit
    /\ painting.last = cacheSize - 1
    /\ model.m_id[1] \in Keys(cache)
    /\ model.m_id[2] \notin Keys(cache)

\* the step is a read that asks for a field of a show: a description, or a
\* cell in the display role, through a valid index
FieldReadStep ==
    /\ ReadStep
    /\ lastRead'.index.valid
    /\ lastCall'.op = "description" \/ lastRead'.role = "DisplayRole"

\* C14: a read of a field of a cached show makes no Database call; a read of a
\* field of a show that is not cached makes exactly one call, fetchShow, and
\* leaves the show cached, so further reads of its fields cost nothing more
\* while it stays cached.
C14_OneFetchPerCachedShow ==
    [][FieldReadStep =>
          LET key == lastRead'.index.internalId
          IN  /\ key \in Keys(cache')
              /\ IF key \in Keys(cache) THEN dbCalls' = <<>>
                                         ELSE dbCalls' = <<"fetchShow">>]_vars

\* a description was read from the cache, which an earlier read of the show
\* had filled
C14_Witness ==
    /\ lastCall.op = "description"
    /\ lastRead.hit
    /\ dbCalls = <<>>
    /\ lastRead.value = cache[1].object.description

\* the value a read of a field of a cached show is to return
CachedValue(op, idx) ==
    LET show == Used(idx.internalId).object
    IN  CASE op = "description" -> show.description
          [] idx.column = 0 -> show.channel
          [] idx.column = 4 -> QTimeToString(show.time, "hh:mm")

\* C16: filter, sort, fetchMore and the update after a new catalog leave the
\* cache as it is, and a read never removes a show unless the cache is full; a
\* read of a cached show returns what the cache holds, also after a catalog
\* update, without a Database call.
C16_CacheSurvivesUpdate ==
    /\ [][lastCall'.op \in {"filter", "sort", "fetchMore", "update"} => cache' = cache]_vars
    /\ [][Len(cache) < cacheSize =>
            \A i \in 1..Len(cache) : \E j \in 1..Len(cache') : cache'[j] = cache[i]]_vars
    /\ [][(FieldReadStep /\ lastRead'.index.internalId \in Keys(cache)) =>
            /\ lastRead'.value = CachedValue(lastCall'.op, lastRead'.index)
            /\ dbCalls' = <<>>]_vars

\* a description read after a catalog update is the one of the catalog before
C16_Witness ==
    /\ lastCall.op = "description"
    /\ lastRead.hit
    /\ lastRead.index.internalId <= database
    /\ lastRead.value # descriptionOf(database, lastRead.index.internalId)
    /\ lastRead.value = descriptionOf(database - 1, lastRead.index.internalId)

\* the step is a catalog update that Database completed
CompletedUpdateStep ==
    /\ Len(trace') = Len(trace) + 1
    /\ trace'[Len(trace')].what = "completedDatabaseUpdate"

\* C15: every completed catalog update makes Model run its query again: with
\* the step that signals the completion the identifier sequence is the answer
\* of the updated Database to the unchanged filters and sort key, the fetch
\* cursor is 0, and the view was told to reset.
C15_UpdateRerunsQuery ==
    [][CompletedUpdateStep =>
          /\ database' = CatalogOf(dbUpdates'[Len(dbUpdates')].data)
          /\ QueryOf(model') = QueryOf(model)
          /\ model'.m_id = DatabaseFetchId(database', model.m_channel, model.m_topic,
                                           model.m_title, SortByOf(model.m_sortColumn),
                                           model.m_sortOrder)
          /\ model'.m_fetched = 0
          /\ emitted' = ResetSignals]_vars

\* a catalog of two shows arrived while the view filtered by ZDF: the
\* sequence is the one ZDF show of the new catalog
C15_Witness ==
    /\ trace # <<>>
    /\ trace[Len(trace)].what = "completedDatabaseUpdate"
    /\ lastCall.op = "update"
    /\ database = 2
    /\ model.m_channel = "ZDF"
    /\ model.m_id = <<2>>
    /\ model.m_fetched = 0

\* the bytes passed to appendData so far
FedBytes == Take(sent, Len(sent) - Len(unfed))

StartedFetches == {i \in DOMAIN trace : trace[i].what = "startedDatabaseUpdate"}

\* C18: whenever a catalog fetch is started, by the automatic cycle or by a
\* manual request, the stored mirror list is not empty and the URL fetched is
\* one of its elements; randomItem is never called on an empty list.
C18_MirrorDrawnFromList ==
    /\ ~crashed
    /\ \A i \in StartedFetches :
          /\ trace[i].mirrorList # <<>>
          /\ trace[i].fetch \in DOMAIN replies =>
                \E j \in DOMAIN trace[i].mirrorList :
                    replies[trace[i].fetch].url = trace[i].mirrorList[j]

\* a download that ended with the dialog being closed after a chunk was written
C20_ClosedWhileDownloading ==
    /\ download.ended = "closed"
    /\ download.content # <<>>

\* C20: once a started download has ended by cancel or by failure, whatever
\* was written before, its file is closed and gone; a file that is left when
\* no download is running is the file of a download that finished without
\* error, closed and complete.
C20_NoPartialFileLeft ==
    /\ download.ended \in {"cancelled", "failed", "closed"} =>
          ~download.exists /\ ~download.open
    /\ (download.exists /\ download.m_networkReply = "nullptr") =>
          /\ download.ended = "finished"
          /\ ~download.open
          /\ download.content = download.wanted

(***************************************************************************)
(* Properties of the decompressors of overlapping fetches.                  *)
(***************************************************************************)
\* the bytes of fetch f that have arrived, and those of them that were read
Arrived(f) == Take(replies[f].stream, Len(replies[f].stream) - Len(replies[f].body))

ReadOf(f) == Take(Arrived(f), Len(Arrived(f)) - Len(replies[f].avail))

\* what one Decompressor makes of the bytes in one piece
DecodingOf(bytes) == appendData(NewDecompressor, bytes).m_data

\* C21: every catalog fetch has a decompressor of its own.  While a fetch is
\* alive its decompressor holds the decoding of exactly the bytes read from
\* its own reply so far, and a fetch that finished without transport error
\* handed Database::update, once, the decoding of exactly the bytes its own
\* reply received, whatever other fetches did in between.
C21_OwnDecompressorPerFetch ==
    \A f \in DOMAIN replies :
        /\ replies[f].phase # "deleted" =>
               replies[f].decompressor.m_data = DecodingOf(ReadOf(f))
        /\ (Ended(f) /\ ~replies[f].error) =>
               /\ Arrived(f) = replies[f].stream
               /\ Cardinality(UpdatesOf(f)) = 1
               /\ \A i \in UpdatesOf(f) :
                      dbUpdates[i].data = DecodingOf(replies[f].stream)
        /\ (~Ended(f) \/ replies[f].error) => UpdatesOf(f) = {}

\* C21 witness: two fetches with different streams overlapped, the one
\* started later finished first, and both handed over a decoded buffer.
C21_Witness ==
    /\ Len(replies) = 2 /\ Len(dbUpdates) = 2
    /\ replies[1].stream # replies[2].stream
    /\ dbUpdates[1].fetch = 2 /\ dbUpdates[2].fetch = 1
    /\ dbUpdates[1].data # dbUpdates[2].data
    /\ dbUpdates[2].data # <<>>

(***************************************************************************)
(* Properties of the download dialog.                                       *)
(***************************************************************************)
\* C22: while the dialog is shown, the cancel button is enabled exactly when
\* a reply of the dialog is in flight, which is exactly when m_networkReply is
\* set and exactly when m_file is set and open; at most one reply is in
\* flight; start and cancel are never both enabled, so start is never enabled
\* during a download; and no slot ever went through a null reply or file.
C22_ButtonsFollowDownload ==
    /\ ~download.nullDeref
    /\ download.transfers \in {0, 1}
    /\ download.dialog = "shown" =>
          /\ download.cancelEnabled <=> (download.transfers = 1)
          /\ (download.transfers = 1) <=> (download.m_networkReply = "reply")
          /\ (download.m_networkReply = "reply") <=> (download.m_file = "QFile")
          /\ (download.m_file = "QFile") <=> download.open
          /\ ~(download.startEnabled /\ download.cancelEnabled)
          /\ download.startEnabled => download.transfers = 0

\* C22 witness: a download is running in the shown dialog, with a chunk
\* written and more to come; cancel is enabled and start is not.
C22_Witness ==
    /\ download.dialog = "shown"
    /\ download.transfers = 1 /\ download.m_networkReply = "reply"
    /\ download.cancelEnabled /\ ~download.startEnabled
    /\ download.content # <<>> /\ download.body # <<>>

====
